---- MODULE Spec2Model ----
(***************************************************************************)
(* A model of tofn: the Ed25519 primitive (src/ed25519/mod.rs), keygen     *)
(* round 1 (src/gg20/keygen/r1.rs), sign round 7                           *)
(* (src/protocol/gg20/sign/r7.rs) and the helpers they use.                *)
(*                                                                         *)
(* Cryptography is scaled down: curve points and scalars live in a prime   *)
(* field of a few elements, a byte string of 32 or 64 bytes is one or two  *)
(* bytes.  Encodings (ASN.1 DER) are modelled byte by byte.                *)
(***************************************************************************)
EXTENDS Integers, Sequences, FiniteSets, TLC

VARIABLES
    edKey,      \* the KeyPair made by the last keygen, or NoKey
    edKeyAgain, \* the KeyPair of a second keygen run on edKey's inputs, or NoKey
    edSigned,   \* [digest, sig] of the last sign call with edKey, or NoSig
    edSigAgain, \* the bytes of a second sign call on the same inputs, or <<>>
    edSig,      \* the encoded signature in hand (<<>>: none yet)
    edTamper,   \* index of the byte of edSig that was mutated, 0: none
    edOut,      \* the last verify call: [vk, digest, sig, out], or NoOut
    \* ---- one sign session, one Sign value per participant
    sgIn,           \* the session's inputs: digest, key material, behaviours
    status,         \* Sign::status of each participant
    r1state, r3state, r5state, r6state, r7state,   \* Option<State> of the rounds
    out_r3bcast, out_r6bcast, out_r7bcast,         \* what each one broadcast
    in_r3bcasts, in_r6bcasts,                      \* FillVec slots, [p][i]
    r7call,         \* the last call of r7: [status, filled, out], or NoCall
    sgSig,          \* the signature round 8 ended with, or NoSig
    \* ---- one call of keygen's start
    stArgs,         \* the arguments of the call, or None
    stOut,          \* what it returned
    \* ---- one keygen session, one share per Protocol value
    kgIn,           \* threshold, party_share_counts, each share's behaviour
    kgStatus,       \* "New", the round waited in ("R2", "R3", "R4"), or "Done"
    kgState,        \* the round handler's state (R2 { .. }, then R3's)
    kgBcastOut,     \* [share][round]: the broadcast sent in rounds 1 and 2
    kgP2psOut,      \* [share]: the round-2 p2p vector, or None
    kgBcastsIn,     \* [share][from]: FillVecMap of the round waited in
    kgP2psIn,       \* [share][from]: the same for p2p messages
    kgResult,       \* Done's Result of each share, or None
    \* ---- the message buffers of one Protocol value in one round
    miBcasts, miP2ps,   \* FillVecMap slots by sender
    miFaulters,         \* the senders msg_in marked as faulters
    miLast,             \* the last msg_in: its arguments and the slots before it
    \* ---- one call of member_of_mul_group
    mgArgs,         \* the arguments of the call, [x, n], or None
    mgOut           \* what it returned

edVars == <<edKey, edKeyAgain, edSigned, edSigAgain, edSig, edTamper, edOut>>

sgVars == <<sgIn, status, r1state, r3state, r5state, r6state, r7state,
            out_r3bcast, out_r6bcast, out_r7bcast, in_r3bcasts, in_r6bcasts,
            r7call, sgSig>>

stVars == <<stArgs, stOut>>

kgVars == <<kgIn, kgStatus, kgState, kgBcastOut, kgP2psOut, kgBcastsIn, kgP2psIn,
            kgResult>>

miVars == <<miBcasts, miP2ps, miFaulters, miLast>>

mgVars == <<mgArgs, mgOut>>

vars == <<edVars, sgVars, stVars, kgVars, miVars, mgVars>>

\* what each part of the model leaves alone
NotEd == <<mgVars, sgVars, stVars, kgVars, miVars>>

NotSg == <<mgVars, edVars, stVars, kgVars, miVars>>

NotSt == <<mgVars, edVars, sgVars, kgVars, miVars>>

NotKg == <<mgVars, edVars, sgVars, stVars, miVars>>

NotMi == <<edVars, sgVars, stVars, kgVars, mgVars>>

NotMg == <<edVars, sgVars, stVars, kgVars, miVars>>

(***************************************************************************)
(* Bounds                                                                  *)
(***************************************************************************)
\* the scaled-down group order is OrderL == 4 * OrderK + 3 (7, then 11)
OrderK == 1
\* secret recovery keys are 0..MaxSrk
MaxSrk == 1
\* the moduli given to member_of_mul_group are 0..MaxModulus
MaxModulus == 12
\* message digests are 0..MaxDigest
MaxDigest == 1
\* a sign session has NSigners participants (t + 1)
NSigners == 2
\* the key shares and nonces of a session are drawn from seeds 0..MaxSeed
MaxSeed == 3
\* a keygen session has NShares shares, 0..NShares-1
NShares == 2
\* message payloads of the buffer model are 1..MaxPayload
MaxPayload == 2

Bytes == 0..255

SecretRecoveryKeys == 0..MaxSrk
SessionNonces == {<<0>>, <<255, 255>>}
MessageDigests == 0..MaxDigest

(***************************************************************************)
(* Ed25519 arithmetic, scaled down.  The group is Z_L with base point 1;   *)
(* a point P is encoded as the byte P, a scalar s < L as the byte s, and   *)
(* bytes >= L decode to nothing (an invalid point, a non-canonical         *)
(* scalar).                                                                *)
(***************************************************************************)
OrderL == 4 * OrderK + 3

BasePoint == 1

ScalarMul(s, P) == (s * P) % OrderL

PointAdd(P, Q) == (P + Q) % OrderL

PointNeg(P) == (OrderL - (P % OrderL)) % OrderL

\* CompressedEdwardsY::decompress: not every 32-byte string is a point
Decompress(b) == IF b < OrderL THEN b ELSE -1

\* is_small_order: the identity is the only small-order point of Z_L
IsSmallOrder(P) == P = 0

\* SHA-512(R || A || M) reduced mod L.  The stand-in is chosen so that, as
\* with SHA-512, no second R satisfies the verification equation for the
\* same S (L = 3 mod 4, so A*A # -1).
HashRAM(R, A, m) == (R * A + m + 1) % OrderL

\* SHA-512(prefix || M) reduced mod L; 0 has probability 2^-252 there and is
\* left out here
HashNonce(prefix, m) == 1 + ((prefix * 3 + m * 7 + 1) % (OrderL - 1))

(***************************************************************************)
(* Deterministic seeding (crypto_tools::rng, described by the spec only)   *)
(***************************************************************************)
ED25519_TAG == 1

KEYGEN_TAG == 0

RECURSIVE FoldBytes(_)
FoldBytes(s) == IF s = <<>> THEN 7 ELSE (FoldBytes(Tail(s)) * 31 + Head(s) + 1) % 256

\* the seeded RNG is the PRF of (tag, subtag, key, nonce): its state
rng_seed_signing_key(tag, subtag, srk, nonce) ==
    (tag * 167 + subtag * 59 + srk * 101 + FoldBytes(nonce) * 37 + 11) % 256

\* the bytes the RNG yields next
RngFillBytes(rng) == (rng * 5 + 3) % 256

(***************************************************************************)
(* ed25519_dalek: SigningKey, Signer::sign, VerifyingKey::verify_strict    *)
(***************************************************************************)
\* ExpandedSecretKey: the clamped scalar (never 0 mod L) and the hash prefix
ExpandScalar(secret) == 1 + (secret % (OrderL - 1))

ExpandPrefix(secret) == (secret * 13 + 5) % 256

\* SigningKey::generate: the secret bytes drawn from the RNG, and the
\* verifying key A = a * B
SigningKeyGenerate(rng) ==
    LET secret == RngFillBytes(rng)
    IN  [secret_key |-> secret,
         verifying_key |-> ScalarMul(ExpandScalar(secret), BasePoint)]

\* Signer::sign: the raw signature bytes R || S
RawSign(sk, m) ==
    LET a == ExpandScalar(sk.secret_key)
        r == HashNonce(ExpandPrefix(sk.secret_key), m)
        R == ScalarMul(r, BasePoint)
        h == HashRAM(R, sk.verifying_key, m)
        S == (r + h * a) % OrderL
    IN  <<R, S>>

\* Signature::from_slice: exactly SIGNATURE_LENGTH bytes (two, scaled down)
SignatureFromSliceOk(raw) == Len(raw) = 2

\* VerifyingKey::verify_strict on a decompressed key A: canonical S, R a
\* point, neither R nor A of small order, and R = S*B - h*A
VerifyStrict(A, m, raw) ==
    LET R == Decompress(raw[1])
        S == raw[2]
    IN  /\ S < OrderL
        /\ R # -1
        /\ ~IsSmallOrder(R)
        /\ ~IsSmallOrder(A)
        /\ R = PointAdd(ScalarMul(S, BasePoint),
                        PointNeg(ScalarMul(HashRAM(R, A, m), A)))

(***************************************************************************)
(* ASN.1 DER (der, spki).  Every value of the model is shorter than 128    *)
(* bytes, so DER allows the short length form only.                        *)
(***************************************************************************)
TagSequence == 48

TagOid == 6

TagBitString == 3

\* id-Ed25519, 1.3.101.112, with no parameters
ALGORITHM_ID == [oid |-> <<43, 101, 112>>, parameters |-> <<>>]

EncodeTlv(tag, value) == <<tag, Len(value)>> \o value

EncodeAlgorithmIdentifier(alg) ==
    EncodeTlv(TagSequence, EncodeTlv(TagOid, alg.oid) \o alg.parameters)

EncodeBitString(unused, raw) == EncodeTlv(TagBitString, <<unused>> \o raw)

\* Asn1Signature::to_der
Asn1SignatureToDer(alg, raw) ==
    EncodeTlv(TagSequence, EncodeAlgorithmIdentifier(alg) \o EncodeBitString(0, raw))

\* a header that can be read at the start of b, with its value inside b
TlvOk(b) == Len(b) >= 2 /\ b[2] < 128 /\ Len(b) >= 2 + b[2]

TlvTag(b) == b[1]

TlvValue(b) == SubSeq(b, 3, 2 + b[2])

TlvRest(b) == SubSeq(b, 3 + b[2], Len(b))

DerError == [error |-> "der"]

\* AlgorithmIdentifierRef::decode_value on the value v of its SEQUENCE: an
\* OBJECT IDENTIFIER, then at most one more value (the parameters)
DecodeAlgorithmIdentifier(v) ==
    IF ~(TlvOk(v) /\ TlvTag(v) = TagOid /\ TlvValue(v) # <<>>) THEN DerError
    ELSE IF TlvRest(v) = <<>> THEN [oid |-> TlvValue(v), parameters |-> <<>>]
    ELSE IF TlvOk(TlvRest(v)) /\ TlvRest(TlvRest(v)) = <<>>
         THEN [oid |-> TlvValue(v), parameters |-> TlvRest(v)]
    ELSE DerError

\* BitStringRef::decode_value: the unused-bits byte (at most 7, and 0 for an
\* empty string), then the bytes
DecodeBitString(v) ==
    IF v = <<>> \/ v[1] > 7 \/ (v[1] # 0 /\ Len(v) = 1) THEN DerError
    ELSE [unused_bits |-> v[1], raw_bytes |-> Tail(v)]

\* Asn1Signature::from_der: SEQUENCE { AlgorithmIdentifier, BIT STRING }
\* and nothing after either
Asn1SignatureFromDer(b) ==
    IF ~(TlvOk(b) /\ TlvTag(b) = TagSequence /\ TlvRest(b) = <<>>) THEN DerError
    ELSE LET c == TlvValue(b)
         IN  IF ~(TlvOk(c) /\ TlvTag(c) = TagSequence) THEN DerError
             ELSE LET alg == DecodeAlgorithmIdentifier(TlvValue(c))
                      d   == TlvRest(c)
                  IN  IF alg = DerError THEN DerError
                      ELSE IF ~(TlvOk(d) /\ TlvTag(d) = TagBitString
                                /\ TlvRest(d) = <<>>) THEN DerError
                      ELSE LET bits == DecodeBitString(TlvValue(d))
                           IN  IF bits = DerError THEN DerError
                               ELSE [signature_algorithm |-> alg,
                                     signature |-> bits]

(***************************************************************************)
(* src/ed25519/mod.rs                                                      *)
(***************************************************************************)
NoKey == [none |-> "key"]

NoSig == [none |-> "sig"]

NoOut == [none |-> "out"]

OkTrue == [ok |-> TRUE]

OkFalse == [ok |-> FALSE]

TofnFatal == [err |-> "TofnFatal"]

\* a keygen whose seed also depends on whether a key was derived before
keygen_fresh_seed(secret_recovery_key, session_nonce) ==
    SigningKeyGenerate(
        (rng_seed_signing_key(ED25519_TAG, KEYGEN_TAG, secret_recovery_key, session_nonce)
            + (IF edKey = NoKey THEN 0 ELSE 1)) % 256)

\* keygen: seed the RNG from (ED25519_TAG, KEYGEN_TAG, key, nonce) and draw
\* the signing key from it
keygen(secret_recovery_key, session_nonce) ==
    SigningKeyGenerate(
        rng_seed_signing_key(ED25519_TAG, KEYGEN_TAG, secret_recovery_key, session_nonce))

\* KeyPair::encoded_verifying_key
encoded_verifying_key(kp) == <<kp.verifying_key>>

\* a sign that signs the digest that follows the one it was given
sign_next_digest(signing_key, message_digest) ==
    Asn1SignatureToDer(ALGORITHM_ID, RawSign(signing_key, message_digest + 1))

\* sign: the DER encoding of Asn1Signature { ALGORITHM_ID, BIT STRING sig }
sign(signing_key, message_digest) ==
    Asn1SignatureToDer(ALGORITHM_ID, RawSign(signing_key, message_digest))

\* a verify that does not compare the algorithm identifier
verify_any_algorithm(encoded_vk, message_digest, encoded_signature) ==
    LET A   == Decompress(encoded_vk[1])
        asn == Asn1SignatureFromDer(encoded_signature)
    IN  IF A = -1 THEN TofnFatal
        ELSE IF asn = DerError THEN TofnFatal
        ELSE IF ~SignatureFromSliceOk(asn.signature.raw_bytes) THEN TofnFatal
        ELSE IF VerifyStrict(A, message_digest, asn.signature.raw_bytes)
             THEN OkTrue ELSE OkFalse

\* verify: TofnFatal on a bad key, bad DER, another algorithm or a signature
\* of the wrong length; otherwise Ok(verify_strict(..).is_ok())
verify(encoded_vk, message_digest, encoded_signature) ==
    LET A   == Decompress(encoded_vk[1])
        asn == Asn1SignatureFromDer(encoded_signature)
    IN  IF A = -1 THEN TofnFatal
        ELSE IF asn = DerError THEN TofnFatal
        ELSE IF asn.signature_algorithm # ALGORITHM_ID THEN TofnFatal
        ELSE IF ~SignatureFromSliceOk(asn.signature.raw_bytes) THEN TofnFatal
        ELSE IF VerifyStrict(A, message_digest, asn.signature.raw_bytes)
             THEN OkTrue ELSE OkFalse

\* how a byte of an encoded signature is mutated: a wrapping add
TamperDeltas == {1, 128, 255}

\* the keys verify is called with: the key pair's own, another point, and
\* bytes that are no point
VerifyKeys ==
    IF edKey = NoKey THEN {}
    ELSE {encoded_verifying_key(edKey.kp), <<PointAdd(edKey.kp.verifying_key, 1)>>, <<255>>}

InitEd ==
    /\ edKey = NoKey
    /\ edKeyAgain = NoKey
    /\ edSigned = NoSig
    /\ edSigAgain = <<>>
    /\ edSig = <<>>
    /\ edTamper = 0
    /\ edOut = NoOut

\* tests::keygen_sign_decode_verify, first step: a key pair from keygen
EdKeygen(srk, nonce) ==
    /\ edKey' = [srk |-> srk, nonce |-> nonce, kp |-> keygen(srk, nonce)]
    /\ edKeyAgain' = NoKey
    /\ edSigned' = NoSig
    /\ edSigAgain' = <<>>
    /\ edSig' = <<>>
    /\ edTamper' = 0
    /\ edOut' = NoOut

\* tests::keygen_sign_known_vectors: keygen run again on the same inputs
EdKeygenAgain ==
    /\ edKey # NoKey
    /\ edKeyAgain = NoKey
    /\ edKeyAgain' = keygen(edKey.srk, edKey.nonce)
    /\ UNCHANGED <<edKey, edSigned, edSigAgain, edSig, edTamper, edOut>>

EdSign(d) ==
    /\ edKey # NoKey
    /\ edSigned' = [digest |-> d, sig |-> sign(edKey.kp, d)]
    /\ edSig' = sign(edKey.kp, d)
    /\ edSigAgain' = <<>>
    /\ edTamper' = 0
    /\ edOut' = NoOut
    /\ UNCHANGED <<edKey, edKeyAgain>>

\* sign run again on the same key pair and digest
EdSignAgain ==
    /\ edSigned # NoSig
    /\ edSigAgain = <<>>
    /\ edSigAgain' = sign(edKey.kp, edSigned.digest)
    /\ UNCHANGED <<edKey, edKeyAgain, edSigned, edSig, edTamper, edOut>>

\* tests::keygen_sign_decode_verify: one byte of the signature is changed
EdTamper(i, delta) ==
    /\ edSig # <<>>
    /\ edTamper = 0
    /\ i \in 1..Len(edSig)
    /\ edSig' = [edSig EXCEPT ![i] = (edSig[i] + delta) % 256]
    /\ edTamper' = i
    /\ edOut' = NoOut
    /\ UNCHANGED <<edKey, edKeyAgain, edSigned, edSigAgain>>

\* a caller's signature of another length: the signature made, cut by its
\* last byte or longer by one, in the same DER structure
EdResize(longer) ==
    /\ edSigned # NoSig
    /\ edTamper = 0
    /\ edSig = edSigned.sig
    /\ LET raw == RawSign(edKey.kp, edSigned.digest)
       IN  edSig' = Asn1SignatureToDer(ALGORITHM_ID,
                        IF longer THEN Append(raw, 0) ELSE SubSeq(raw, 1, Len(raw) - 1))
    /\ edTamper' = -1
    /\ edOut' = NoOut
    /\ UNCHANGED <<edKey, edKeyAgain, edSigned, edSigAgain>>

EdVerify(vk, d) ==
    /\ edSig # <<>>
    /\ edOut' = [vk |-> vk, digest |-> d, sig |-> edSig, out |-> verify(vk, d, edSig)]
    /\ UNCHANGED <<edKey, edKeyAgain, edSigned, edSigAgain, edSig, edTamper>>

NextEd ==
    \/ \E srk \in SecretRecoveryKeys, nonce \in SessionNonces : EdKeygen(srk, nonce) /\ UNCHANGED NotEd
    \/ EdKeygenAgain /\ UNCHANGED NotEd
    \/ \E d \in MessageDigests : EdSign(d) /\ UNCHANGED NotEd
    \/ EdSignAgain /\ UNCHANGED NotEd
    \/ \E i \in 1..Len(edSig), delta \in TamperDeltas : EdTamper(i, delta) /\ UNCHANGED NotEd
    \/ \E longer \in BOOLEAN : EdResize(longer) /\ UNCHANGED NotEd
    \/ \E vk \in VerifyKeys, d \in MessageDigests : EdVerify(vk, d) /\ UNCHANGED NotEd

(***************************************************************************)
(* Claims on the Ed25519 primitive                                         *)
(***************************************************************************)
\* verify was last called with the key pair's own key, the signed digest and
\* the signature in hand
VerifiedOwn ==
    /\ edOut # NoOut
    /\ edOut.vk = encoded_verifying_key(edKey.kp)
    /\ edOut.digest = edSigned.digest

\* C1: for every key pair from keygen and every digest d,
\* verify(kp.encoded_verifying_key(), d, sign(kp, d)) is Ok(true).
C1_SignVerifyRoundTrip ==
    (VerifiedOwn /\ edOut.sig = edSigned.sig) => edOut.out = OkTrue

C1_Witness ==
    VerifiedOwn /\ edTamper = 0 /\ edOut.sig = edSigned.sig /\ edOut.out = OkTrue

\* C2: after any one byte of sign(kp, d) is mutated, verify on the same key
\* and digest does not accept: it never yields Ok(true).
C2_TamperRejected ==
    (VerifiedOwn /\ edTamper # 0) => edOut.out # OkTrue

VerifiedKeyPoint == Decompress(edOut.vk[1])

VerifiedAsn == Asn1SignatureFromDer(edOut.sig)

\* the input of the last call was malformed: key bytes that are no point, a
\* signature that is not DER of the SEQUENCE, another algorithm identifier,
\* or a bit string that is not of signature length
VerifiedMalformed ==
    IF VerifiedKeyPoint = -1 \/ VerifiedAsn = DerError THEN TRUE
    ELSE \/ VerifiedAsn.signature_algorithm # ALGORITHM_ID
         \/ Len(VerifiedAsn.signature.raw_bytes) # 2

q == OrderL

Scalars == 0..(q - 1)

GeneratorG == 1

GeneratorH == 3

FeAdd(a, b) == (a + b) % q

FeMul(a, b) == (a * b) % q

FeInvert(a) == CHOOSE b \in Scalars : (a * b) % q = 1

\* GE * FE and GE + GE
GeMul(P, a) == (P * a) % q

GeAdd(P, Q) == (P + Q) % q

\* ECPoint::x_coor: the affine x coordinate, the same for P and -P
x_coor(P) == P * P

\* pedersen::commit_with_randomness
PedersenCommit(msg, randomness) ==
    GeAdd(GeMul(GeneratorG, msg), GeMul(GeneratorH, randomness))

\* pedersen::prove_wc: the proof is modelled by the witness it proves
\* knowledge of
PedersenProveWc(msg, randomness) == [msg |-> msg, randomness |-> randomness]

\* pedersen::verify_wc: the commitment opens to the witness and
\* msg_g = g * witness
verify_wc(stmt, proof) ==
    /\ stmt.commit = PedersenCommit(proof.msg, proof.randomness)
    /\ stmt.msg_g = GeMul(stmt.g, proof.msg)

(***************************************************************************)
(* A sign session.  Rounds 1-6 and 8 are not among the sources: they       *)
(* follow the spec's section 4.3 and carry only what round 7 reads.        *)
(***************************************************************************)
Signers == 1..NSigners

\* Sign::participant_indices: the keygen index of the signer at each place
participant_indices == [i \in Signers |-> 2 * i - 1]

Statuses == <<"New", "R1", "R2", "R3", "R4", "R5", "R6", "R7", "Done">>

StatusNo(st) == CHOOSE n \in 1..Len(Statuses) : Statuses[n] = st

SignBehaviours == {"Honest", "R3BadSigmaI", "R6BadProof"}

None == [none |-> "none"]

NoCall == [none |-> "call"]

RECURSIVE SumOver(_, _)
SumOver(f, S) ==
    IF S = {} THEN 0
    ELSE LET i == CHOOSE j \in S : TRUE IN (f[i] + SumOver(f, S \ {i})) % q

\* k_i, w_i: nonce summand and Lagrange-adjusted key share of signer i
NonceSummand(seed) == [i \in Signers |-> 1 + ((i + seed) % (q - 1))]

KeyShare(seed) == [i \in Signers |-> 1 + ((2 * i + (seed \div 2) + 1) % (q - 1))]

\* the additive mask the MtA responder j keeps against initiator i
MtaMask(seed, i, j) == (i + 2 * j + seed) % q

\* sigma_i = k_i * w_i + sum over j # i of (mu_ij + nu_ij), the shares of k * x
SigmaShare(seed) ==
    [i \in Signers |->
        LET k == NonceSummand(seed)
            w == KeyShare(seed)
            mu == [j \in Signers |->
                     IF j = i THEN FeMul(k[i], w[i])
                     ELSE (k[i] * w[j] + q - MtaMask(seed, i, j)) % q]
            nu == [j \in Signers |-> IF j = i THEN 0 ELSE MtaMask(seed, j, i)]
        IN  FeAdd(SumOver(mu, Signers), SumOver(nu, Signers))]

\* the long-term public key y = g * x and the randomizer R = g * k^-1
SessionPublicKey(seed) == GeMul(GeneratorG, SumOver(KeyShare(seed), Signers))

SessionRandomizer(seed) ==
    GeMul(GeneratorG, FeInvert(SumOver(NonceSummand(seed), Signers)))

\* the sessions considered: k, x and s = k * (m + r * x) are not 0 (each is 0
\* with probability 2^-256 on the real curve)
SessionOk(m, seed) ==
    LET k == SumOver(NonceSummand(seed), Signers)
        x == SumOver(KeyShare(seed), Signers)
    IN  /\ k # 0
        /\ x # 0
        /\ (m + (x_coor(SessionRandomizer(seed)) % q) * x) % q # 0

\* at least one signer is honest and the others share one behaviour
BehavioursOk(beh) ==
    /\ \E i \in Signers : beh[i] = "Honest"
    /\ \A i, j \in Signers : beh[i] = "Honest" \/ beh[j] = "Honest" \/ beh[i] = beh[j]

InitSg ==
    /\ sgIn \in {c \in [msg_to_sign : MessageDigests, seed : 0..MaxSeed,
                         behaviour : [Signers -> SignBehaviours]] :
                    SessionOk(c.msg_to_sign, c.seed) /\ BehavioursOk(c.behaviour)}
    /\ status = [p \in Signers |-> "New"]
    /\ r1state = [p \in Signers |-> None]
    /\ r3state = [p \in Signers |-> None]
    /\ r5state = [p \in Signers |-> None]
    /\ r6state = [p \in Signers |-> None]
    /\ r7state = [p \in Signers |-> None]
    /\ out_r3bcast = [p \in Signers |-> None]
    /\ out_r6bcast = [p \in Signers |-> None]
    /\ out_r7bcast = [p \in Signers |-> None]
    /\ in_r3bcasts = [p \in Signers |-> [i \in Signers |-> None]]
    /\ in_r6bcasts = [p \in Signers |-> [i \in Signers |-> None]]
    /\ r7call = [p \in Signers |-> NoCall]
    /\ sgSig = [p \in Signers |-> NoSig]

\* Sign::my_secret_key_share of participant p
my_secret_key_share(p) ==
    [my_index |-> participant_indices[p],
     ecdsa_public_key |-> SessionPublicKey(sgIn.seed)]

\* the process of p is alive: no call of r7 has panicked
Alive(p) == IF r7call[p] = NoCall THEN TRUE ELSE r7call[p].out.kind # "panic"

\* every other participant has executed round n, so its messages are out
OthersPast(p, n) == \A j \in Signers \ {p} : StatusNo(status[j]) > n

\* FillVec::is_full but for the own slot
OthersFilled(slots, p) == \A i \in Signers \ {p} : slots[i] # None

\* sigma_i as participant p uses it: R3BadSigmaI shifts it from round 3 on
MySigma(p) ==
    IF sgIn.behaviour[p] = "R3BadSigmaI"
    THEN FeAdd(SigmaShare(sgIn.seed)[p], 1)
    ELSE SigmaShare(sgIn.seed)[p]

\* the randomness of p's round-3 commitment
MyCommitRandomness(p) == (p + 1) % q

SgR1(p) ==
    /\ Alive(p)
    /\ status[p] = "New"
    /\ status' = [status EXCEPT ![p] = "R1"]
    /\ r1state' = [r1state EXCEPT ![p] =
                     [my_ecdsa_nonce_summand |-> NonceSummand(sgIn.seed)[p]]]
    /\ UNCHANGED <<sgIn, r3state, r5state, r6state, r7state, out_r3bcast, out_r6bcast,
                   out_r7bcast, in_r3bcasts, in_r6bcasts, r7call, sgSig>>

SgR2(p) ==
    /\ Alive(p)
    /\ status[p] = "R1"
    /\ OthersPast(p, 1)
    /\ status' = [status EXCEPT ![p] = "R2"]
    /\ UNCHANGED <<sgIn, r1state, r3state, r5state, r6state, r7state, out_r3bcast,
                   out_r6bcast, out_r7bcast, in_r3bcasts, in_r6bcasts, r7call, sgSig>>

\* round 3: sigma_i, and the broadcast of its Pedersen commitment
SgR3(p) ==
    /\ Alive(p)
    /\ status[p] = "R2"
    /\ OthersPast(p, 2)
    /\ status' = [status EXCEPT ![p] = "R3"]
    /\ r3state' = [r3state EXCEPT ![p] =
                     [my_nonce_x_keyshare_summand |-> MySigma(p),
                      my_nonce_x_keyshare_summand_commit_randomness |->
                          MyCommitRandomness(p)]]
    /\ out_r3bcast' = [out_r3bcast EXCEPT ![p] =
                         [nonce_x_keyshare_summand_commit |->
                              PedersenCommit(MySigma(p), MyCommitRandomness(p))]]
    /\ UNCHANGED <<sgIn, r1state, r5state, r6state, r7state, out_r6bcast, out_r7bcast,
                   in_r3bcasts, in_r6bcasts, r7call, sgSig>>

\* the round-3 broadcast of j reaches p, which waits for round-3 messages
SgDeliverR3(p, j) ==
    /\ Alive(p)
    /\ j # p
    /\ status[p] = "R3"
    /\ out_r3bcast[j] # None
    /\ in_r3bcasts[p][j] = None
    /\ in_r3bcasts' = [in_r3bcasts EXCEPT ![p][j] = out_r3bcast[j]]
    /\ UNCHANGED <<sgIn, status, r1state, r3state, r5state, r6state, r7state,
                   out_r3bcast, out_r6bcast, out_r7bcast, in_r6bcasts, r7call, sgSig>>

SgR4(p) ==
    /\ Alive(p)
    /\ status[p] = "R3"
    /\ OthersFilled(in_r3bcasts[p], p)
    /\ status' = [status EXCEPT ![p] = "R4"]
    /\ UNCHANGED <<sgIn, r1state, r3state, r5state, r6state, r7state, out_r3bcast,
                   out_r6bcast, out_r7bcast, in_r3bcasts, in_r6bcasts, r7call, sgSig>>

\* round 5: the randomizer R = (sum of Gamma_i) * delta^-1 = g * k^-1
SgR5(p) ==
    /\ Alive(p)
    /\ status[p] = "R4"
    /\ OthersPast(p, 4)
    /\ status' = [status EXCEPT ![p] = "R5"]
    /\ r5state' = [r5state EXCEPT ![p] =
                     [ecdsa_randomizer |-> SessionRandomizer(sgIn.seed)]]
    /\ UNCHANGED <<sgIn, r1state, r3state, r6state, r7state, out_r3bcast, out_r6bcast,
                   out_r7bcast, in_r3bcasts, in_r6bcasts, r7call, sgSig>>

\* round 6: S_i = R * sigma_i with its Pedersen-WC proof; R6BadProof
\* broadcasts a proof of another witness
SgR6(p) ==
    /\ Alive(p)
    /\ status[p] = "R5"
    /\ OthersPast(p, 5)
    /\ status' = [status EXCEPT ![p] = "R6"]
    /\ LET S == GeMul(r5state[p].ecdsa_randomizer,
                      r3state[p].my_nonce_x_keyshare_summand)
           proof == PedersenProveWc(
                        IF sgIn.behaviour[p] = "R6BadProof"
                        THEN FeAdd(r3state[p].my_nonce_x_keyshare_summand, 1)
                        ELSE r3state[p].my_nonce_x_keyshare_summand,
                        r3state[p].my_nonce_x_keyshare_summand_commit_randomness)
       IN  /\ r6state' = [r6state EXCEPT ![p] = [my_ecdsa_public_key_check |-> S]]
           /\ out_r6bcast' = [out_r6bcast EXCEPT ![p] =
                                [ecdsa_public_key_check |-> S,
                                 ecdsa_public_key_check_proof_wc |-> proof]]
    /\ UNCHANGED <<sgIn, r1state, r3state, r5state, r7state, out_r3bcast, out_r7bcast,
                   in_r3bcasts, in_r6bcasts, r7call, sgSig>>

SgDeliverR6(p, j) ==
    /\ Alive(p)
    /\ j # p
    /\ status[p] = "R6"
    /\ out_r6bcast[j] # None
    /\ in_r6bcasts[p][j] = None
    /\ in_r6bcasts' = [in_r6bcasts EXCEPT ![p][j] = out_r6bcast[j]]
    /\ UNCHANGED <<sgIn, status, r1state, r3state, r5state, r6state, r7state,
                   out_r3bcast, out_r6bcast, out_r7bcast, in_r3bcasts, r7call, sgSig>>

(***************************************************************************)
(* src/protocol/gg20/sign/r7.rs                                            *)
(***************************************************************************)
Panic(why) == [kind |-> "panic", why |-> why]

\* r7 without its assertion on the status
R7StatusAssertDropped(p) == TRUE

\* line 24: assert!(matches!(self.status, Status::R6))
R7StatusAssert(p) == status[p] = "R6"

\* the loop without the proof check
RECURSIVE R7LoopUnverified(_, _, _)
R7LoopUnverified(p, i, acc) ==
    IF i > NSigners THEN [kind |-> "sum", ecdsa_public_key |-> acc]
    ELSE IF participant_indices[i] = my_secret_key_share(p).my_index
         THEN R7LoopUnverified(p, i + 1, acc)
    ELSE IF in_r6bcasts[p][i] = None THEN Panic("in_r6bcasts unwrap")
    ELSE IF in_r3bcasts[p][i] = None THEN Panic("in_r3bcasts unwrap")
    ELSE R7LoopUnverified(p, i + 1,
                          GeAdd(acc, in_r6bcasts[p][i].ecdsa_public_key_check))

\* lines 32-57: the loop over participant_indices from place i on, adding the
\* S_j of the others to acc; the first empty slot or failed proof panics
RECURSIVE R7Loop(_, _, _)
R7Loop(p, i, acc) ==
    IF i > NSigners THEN [kind |-> "sum", ecdsa_public_key |-> acc]
    ELSE IF participant_indices[i] = my_secret_key_share(p).my_index
         THEN R7Loop(p, i + 1, acc)
    ELSE IF in_r6bcasts[p][i] = None THEN Panic("in_r6bcasts unwrap")
    ELSE IF in_r3bcasts[p][i] = None THEN Panic("in_r3bcasts unwrap")
    ELSE IF ~verify_wc(
                [commit |-> in_r3bcasts[p][i].nonce_x_keyshare_summand_commit,
                 msg_g |-> in_r6bcasts[p][i].ecdsa_public_key_check,
                 g |-> r5state[p].ecdsa_randomizer],
                in_r6bcasts[p][i].ecdsa_public_key_check_proof_wc)
         THEN Panic("pedersen proof wc failed to verify")
    ELSE R7Loop(p, i + 1, GeAdd(acc, in_r6bcasts[p][i].ecdsa_public_key_check))

\* k_i and sigma_i taken for each other
R7SigSummandSwapped(m, k_i, r, sigma_i) == FeAdd(FeMul(m, sigma_i), FeMul(r, k_i))

\* sigma_i not multiplied by r
R7SigSummandNoR(m, k_i, r, sigma_i) == FeAdd(FeMul(m, k_i), sigma_i)

\* lines 63-71: s_i = msg_to_sign * k_i + r * sigma_i
R7SigSummand(m, k_i, r, sigma_i) == FeAdd(FeMul(m, k_i), FeMul(r, sigma_i))

\* Sign::r7: (State, Bcast), or a panic
r7(p) ==
    IF ~R7StatusAssert(p) THEN Panic("status")
    ELSE IF r5state[p] = None THEN Panic("r5state unwrap")
    ELSE IF r6state[p] = None THEN Panic("r6state unwrap")
    ELSE LET loop == R7Loop(p, 1, r6state[p].my_ecdsa_public_key_check)
         IN  IF loop.kind = "panic" THEN loop
             ELSE IF loop.ecdsa_public_key # my_secret_key_share(p).ecdsa_public_key
                  THEN Panic("assert_eq ecdsa_public_key")
             ELSE IF r1state[p] = None THEN Panic("r1state unwrap")
             ELSE IF r3state[p] = None THEN Panic("r3state unwrap")
             ELSE IF r5state[p].ecdsa_randomizer = 0 THEN Panic("x_coor unwrap")
             ELSE LET r == x_coor(r5state[p].ecdsa_randomizer) % q
                      my_ecdsa_sig_summand ==
                          R7SigSummand(sgIn.msg_to_sign,
                                       r1state[p].my_ecdsa_nonce_summand, r,
                                       r3state[p].my_nonce_x_keyshare_summand)
                  IN  [kind |-> "ok",
                       state |-> [r |-> r, my_ecdsa_sig_summand |-> my_ecdsa_sig_summand],
                       bcast |-> [ecdsa_sig_summand |-> my_ecdsa_sig_summand]]

\* a call of r7 by the session's driver; a panic ends the process
SgR7(p) ==
    /\ Alive(p)
    /\ status[p] # "Done"
    /\ r7call' = [r7call EXCEPT ![p] =
                    [status |-> status[p],
                     filled |-> OthersFilled(in_r3bcasts[p], p)
                                /\ OthersFilled(in_r6bcasts[p], p),
                     out |-> r7(p)]]
    /\ IF r7(p).kind = "ok"
       THEN /\ status' = [status EXCEPT ![p] = "R7"]
            /\ r7state' = [r7state EXCEPT ![p] = r7(p).state]
            /\ out_r7bcast' = [out_r7bcast EXCEPT ![p] = r7(p).bcast]
       ELSE UNCHANGED <<status, r7state, out_r7bcast>>
    /\ UNCHANGED <<sgIn, r1state, r3state, r5state, r6state, out_r3bcast, out_r6bcast,
                   in_r3bcasts, in_r6bcasts, sgSig>>

(***************************************************************************)
(* Round 8 and ECDSA verification (spec, section 4.3)                      *)
(***************************************************************************)
ecdsa_verify(y, m, sig) ==
    /\ sig.r \in 1..(q - 1)
    /\ sig.s \in 1..(q - 1)
    /\ LET w == FeInvert(sig.s)
           P == GeAdd(GeMul(GeneratorG, FeMul(m, w)), GeMul(y, FeMul(sig.r, w)))
       IN  P # 0 /\ x_coor(P) % q = sig.r

\* low-s normalization
NormalizeS(s) == IF 2 * s > q THEN q - s ELSE s

\* s = sum of the broadcast s_i
SumOfSigSummands ==
    SumOver([j \in Signers |-> out_r7bcast[j].ecdsa_sig_summand], Signers)

SgR8(p) ==
    /\ Alive(p)
    /\ status[p] = "R7"
    /\ \A j \in Signers : out_r7bcast[j] # None
    /\ LET sig == [r |-> r7state[p].r, s |-> NormalizeS(SumOfSigSummands)]
       IN  sgSig' = [sgSig EXCEPT ![p] =
                       IF ecdsa_verify(my_secret_key_share(p).ecdsa_public_key,
                                       sgIn.msg_to_sign, sig)
                       THEN sig ELSE [type7 |-> TRUE]]
    /\ status' = [status EXCEPT ![p] = "Done"]
    /\ UNCHANGED <<sgIn, r1state, r3state, r5state, r6state, r7state, out_r3bcast,
                   out_r6bcast, out_r7bcast, in_r3bcasts, in_r6bcasts, r7call>>

NextSg ==
    \E p \in Signers :
        \/ SgR1(p) /\ UNCHANGED NotSg
        \/ SgR2(p) /\ UNCHANGED NotSg
        \/ SgR3(p) /\ UNCHANGED NotSg
        \/ \E j \in Signers : SgDeliverR3(p, j) /\ UNCHANGED NotSg
        \/ SgR4(p) /\ UNCHANGED NotSg
        \/ SgR5(p) /\ UNCHANGED NotSg
        \/ SgR6(p) /\ UNCHANGED NotSg
        \/ \E j \in Signers : SgDeliverR6(p, j) /\ UNCHANGED NotSg
        \/ SgR7(p) /\ UNCHANGED NotSg
        \/ SgR8(p) /\ UNCHANGED NotSg

(***************************************************************************)
(* Claims on sign round 7                                                  *)
(***************************************************************************)
\* r7 was called by p in its turn: at status R6 with the others' slots filled
CalledInTurn(p) ==
    r7call[p] # NoCall /\ r7call[p].status = "R6" /\ r7call[p].filled

\* the sum of all S_i as p sees it: its own and the others' broadcasts
SumOfChecks(p) ==
    SumOver([j \in Signers |->
                IF j = p THEN r6state[p].my_ecdsa_public_key_check
                ELSE in_r6bcasts[p][j].ecdsa_public_key_check], Signers)

\* the peers whose Pedersen-WC proof does not verify at p
BadProofPeers(p) ==
    {j \in Signers \ {p} :
        ~verify_wc([commit |-> in_r3bcasts[p][j].nonce_x_keyshare_summand_commit,
                    msg_g |-> in_r6bcasts[p][j].ecdsa_public_key_check,
                    g |-> r5state[p].ecdsa_randomizer],
                   in_r6bcasts[p][j].ecdsa_public_key_check_proof_wc)}

\* C5: when the sum of all S_i differs from the public key y, r7 enters the
\* type-7 sad path with a faulter list: it does not abort the process, and
\* it does not broadcast s_i.
C5_KeyCheckFailureEntersType7 ==
    \A p \in Signers :
        (CalledInTurn(p) /\ SumOfChecks(p) # my_secret_key_share(p).ecdsa_public_key)
            => /\ r7call[p].out.kind = "type7"
               /\ out_r7bcast[p] = None

\* C6: when Pedersen-WC proofs of peers fail in r7, the party does not abort:
\* it records each such peer as a faulter, checks the remaining peers, and
\* reports all of them.
C6_ProofFailuresAreAttributed ==
    \A p \in Signers :
        (CalledInTurn(p) /\ BadProofPeers(p) # {})
            => /\ r7call[p].out.kind = "faulters"
               /\ r7call[p].out.faulters = BadProofPeers(p)

\* C7: r7 does its work (returns its State and Bcast) only when called with
\* status R6 and with the r6 and r3 broadcast slots of every other
\* participant filled.
C7_R7OnlyAfterR6 ==
    \A p \in Signers :
        (r7call[p] # NoCall /\ r7call[p].out.kind = "ok")
            => r7call[p].status = "R6" /\ r7call[p].filled

\* r7 has returned normally for one participant and has refused a call out
\* of turn for another
C7_Witness ==
    /\ \E p \in Signers : CalledInTurn(p) /\ r7call[p].out.kind = "ok"
    /\ \E p \in Signers : r7call[p] # NoCall /\ r7call[p].status # "R6"

AllHonest == \A p \in Signers : sgIn.behaviour[p] = "Honest"

\* C8: in an all-honest session every signer's round-7 checks pass, the sum
\* of the broadcast s_i with r is a signature that verifies under y for m,
\* and a signer that finishes round 8 ends with that signature.
C8_HonestSignatureVerifies ==
    AllHonest =>
        /\ \A p \in Signers : CalledInTurn(p) => r7call[p].out.kind = "ok"
        /\ (\A j \in Signers : out_r7bcast[j] # None) =>
               \A p \in Signers :
                   ecdsa_verify(my_secret_key_share(p).ecdsa_public_key,
                                sgIn.msg_to_sign,
                                [r |-> r7state[p].r, s |-> SumOfSigSummands])
        /\ \A p \in Signers : status[p] = "Done" =>
               /\ sgSig[p] = [r |-> r7state[p].r, s |-> NormalizeS(SumOfSigSummands)]
               /\ ecdsa_verify(my_secret_key_share(p).ecdsa_public_key,
                               sgIn.msg_to_sign, sgSig[p])

C8_Witness ==
    AllHonest /\ \A p \in Signers : status[p] = "Done" /\ sgSig[p] # NoSig

\* C11: a call of r7 at status R6 returns (State, Bcast) if and only if the
\* r3 and r6 messages of every other participant are there, verify_wc
\* succeeds for each of them on (commit of r3, S_j of r6, R of r5), and the
\* own S_i plus every other S_j, each once, is the stored ecdsa_public_key.
C11_R7AcceptsIffChecksPass ==
    \A p \in Signers :
        (r7call[p] # NoCall /\ r7call[p].status = "R6") =>
            (r7call[p].out.kind = "ok"
                <=> IF r7call[p].filled
                    THEN /\ BadProofPeers(p) = {}
                         /\ SumOfChecks(p) = my_secret_key_share(p).ecdsa_public_key
                    ELSE FALSE)

\* in one session r7 has returned for one participant and has not for
\* another that was given a proof that fails
C11_Witness ==
    /\ \E p \in Signers : CalledInTurn(p) /\ r7call[p].out.kind = "ok"
    /\ \E p \in Signers :
           CalledInTurn(p) /\ BadProofPeers(p) # {} /\ r7call[p].out.kind = "panic"

\* C12: when r7 succeeds, r is the x-coordinate of the r5 ecdsa_randomizer
\* reduced mod q, my_ecdsa_sig_summand is msg_to_sign * k_i + r * sigma_i
\* mod q with k_i of r1 and sigma_i of r3, and the broadcast
\* ecdsa_sig_summand is the my_ecdsa_sig_summand of the returned State.
C12_R7ShareComputation ==
    \A p \in Signers :
        (r7call[p] # NoCall /\ r7call[p].out.kind = "ok") =>
            LET st == r7call[p].out.state
                R == r5state[p].ecdsa_randomizer
            IN  /\ st.r = (R * R) % q
                /\ st.my_ecdsa_sig_summand =
                       (sgIn.msg_to_sign * r1state[p].my_ecdsa_nonce_summand
                        + st.r * r3state[p].my_nonce_x_keyshare_summand) % q
                /\ r7call[p].out.bcast.ecdsa_sig_summand = st.my_ecdsa_sig_summand
                /\ r7state[p] = st

\* r7 has succeeded with r, k_i and sigma_i such that leaving r out or
\* swapping k_i and sigma_i would give another s_i
C12_Witness ==
    \E p \in Signers :
        /\ r7call[p] # NoCall
        /\ r7call[p].out.kind = "ok"
        /\ r7call[p].out.state.r # 1
        /\ r1state[p].my_ecdsa_nonce_summand # r3state[p].my_nonce_x_keyshare_summand

(***************************************************************************)
(* Keygen: the collaborators of round 1 (collections, hash, vss, paillier, *)
(* serialization), as the spec describes them                              *)
(***************************************************************************)
Some(x) == [some |-> x]

KeygenShareIds == 0..(NShares - 1)

KeygenBehaviours ==
    {"Honest", "R1BadCommit", "R1BadEncryptionKeyProof", "R1BadZkSetupProof",
     "R2BadShare"}

R1Behaviours == {"R1BadCommit", "R1BadEncryptionKeyProof", "R1BadZkSetupProof"}

\* the share counts considered: one party holding every share, or a first
\* party with one share and a second with the rest
PartyShareCounts ==
    {<<NShares>>} \cup (IF NShares > 1 THEN {<<1, NShares - 1>>} ELSE {})

\* KeygenPartyShareCounts::share_to_party_id: the party holding the share,
\* parties numbered from 0; TofnFatal for a share id past the last share
RECURSIVE ShareToParty(_, _, _)
ShareToParty(counts, share, party) ==
    IF party > Len(counts) THEN TofnFatal
    ELSE IF share < counts[party] THEN [party_id |-> party - 1]
    ELSE ShareToParty(counts, share - counts[party], party + 1)

share_to_party_id(counts, share) == ShareToParty(counts, share, 1)

\* TypedUsize::to_bytes and k256_serde::to_bytes
IdToBytes(id) == <<"usize", id>>

PointToBytes(P) == <<"point", P>>

\* vss::Vss::new(threshold): a polynomial of threshold + 1 coefficients, the
\* first of them the secret
VssNew(threshold, u) == [secret_coeffs |-> [k \in 1..(threshold + 1) |-> (u + k - 1) % q]]

VssGetSecret(vss) == vss.secret_coeffs[1]

Y_I_COMMIT_TAG == 0

\* hash::commit_with_randomness: the hash of (tag, id, payload, reveal); no
\* two inputs hash to the same output
HashCommit(tag, id, payload, reveal) ==
    [digest |-> <<tag, id, payload, reveal>>, corrupted |-> FALSE]

\* hash::Output::corrupt: another output
OutputCorrupt(commit) == [commit EXCEPT !.corrupted = ~commit.corrupted]

\* the Paillier key pair and ZK setup of a party
PartyKeyPair(party) == [ek |-> [n_of |-> party], dk |-> [pq_of |-> party]]

PartyZkSetup(party) ==
    [zkp |-> [setup_of |-> party],
     zkp_proof |-> [setup_of |-> party, sound |-> TRUE]]

\* EncryptionKey::correctness_proof(dk, domain) and ::verify_correctness
CorrectnessProof(ek, dk, domain) ==
    [n_of |-> ek.n_of, pq_of |-> dk.pq_of, domain |-> domain, sound |-> TRUE]

VerifyCorrectness(ek, proof, domain) ==
    proof.sound /\ proof.n_of = ek.n_of /\ proof.pq_of = ek.n_of
    /\ proof.domain = domain

\* ZkSetup::verify
ZkSetupVerify(zkp, proof) == proof.sound /\ proof.setup_of = zkp.setup_of

\* paillier::zk::malicious::corrupt_ek_proof, corrupt_zksetup_proof
PaillierCorruptEkProof(proof) == [proof EXCEPT !.sound = FALSE]

PaillierCorruptZkSetupProof(proof) == [proof EXCEPT !.sound = FALSE]

(***************************************************************************)
(* src/refactor/sdk/implementer_api/utils.rs                               *)
(***************************************************************************)
\* a serialize that yields no bytes when bincode fails
serialize_or_empty(value, bincode_ok) ==
    IF bincode_ok
    THEN <<value.y_i_commit, value.ek, value.ek_proof, value.zkp, value.zkp_proof>>
    ELSE <<>>

\* serialize: the fields in their order, or TofnFatal when bincode fails
serialize(value, bincode_ok) ==
    IF bincode_ok
    THEN <<value.y_i_commit, value.ek, value.ek_proof, value.zkp, value.zkp_proof>>
    ELSE TofnFatal

deserialize(bytes) ==
    [y_i_commit |-> bytes[1], ek |-> bytes[2], ek_proof |-> bytes[3],
     zkp |-> bytes[4], zkp_proof |-> bytes[5]]

(***************************************************************************)
(* src/gg20/keygen/r1.rs                                                   *)
(***************************************************************************)
\* a corrupt_commit that does not look at the behaviour
corrupt_commit_always(my_keygen_id, behaviour, commit) == OutputCorrupt(commit)

\* malicious::corrupt_commit
corrupt_commit(my_keygen_id, behaviour, commit) ==
    IF behaviour = "R1BadCommit" THEN OutputCorrupt(commit) ELSE commit

\* corrupt_ek_proof that never corrupts
corrupt_ek_proof_never(my_keygen_id, behaviour, ek_proof) == ek_proof

\* malicious::corrupt_ek_proof
corrupt_ek_proof(my_keygen_id, behaviour, ek_proof) ==
    IF behaviour = "R1BadEncryptionKeyProof"
    THEN PaillierCorruptEkProof(ek_proof) ELSE ek_proof

\* a corrupt_zkp_proof that does not look at the behaviour
corrupt_zkp_proof_always(my_keygen_id, behaviour, zkp_proof) ==
    PaillierCorruptZkSetupProof(zkp_proof)

\* malicious::corrupt_zkp_proof
corrupt_zkp_proof(my_keygen_id, behaviour, zkp_proof) ==
    IF behaviour = "R1BadZkSetupProof"
    THEN PaillierCorruptZkSetupProof(zkp_proof) ELSE zkp_proof

\* start ending with Done and a p2p vector
StartBuilderDone(r2, bcast_out) ==
    [kind |-> "Done", round |-> r2, bcast_out |-> bcast_out,
     p2ps_out |-> Some(<<>>)]

\* lines 72-84: ProtocolBuilder::NotDone(RoundBuilder::new(Box::new(r2::R2 {..}),
\* bcast_out, None))
StartBuilder(r2, bcast_out) ==
    [kind |-> "NotDone", round |-> r2, bcast_out |-> bcast_out, p2ps_out |-> None]

\* the proof bound to the id of the share
EkProofDomainOfShare(my_keygen_id, party) == IdToBytes(my_keygen_id)

\* lines 49-51: the domain of ek_proof, the bytes of the id of the party that
\* share_to_party_id gave for my_keygen_id
EkProofDomain(my_keygen_id, party) == IdToBytes(party.party_id)

\* start; rnd holds what the call draws (the polynomial, the reveal) and
\* whether bincode succeeds
start(my_keygen_id, threshold, party_share_counts, keypair, zksetup, behaviour, rnd) ==
    LET u_i_vss == VssNew(threshold, rnd.u)
        y_i_reveal == rnd.reveal
        y_i_commit ==
            corrupt_commit(my_keygen_id, behaviour,
                HashCommit(Y_I_COMMIT_TAG, my_keygen_id,
                           PointToBytes(GeMul(GeneratorG, VssGetSecret(u_i_vss))),
                           y_i_reveal))
        party == share_to_party_id(party_share_counts, my_keygen_id)
    IN  IF party = TofnFatal THEN TofnFatal
        ELSE LET ek_proof ==
                     corrupt_ek_proof(my_keygen_id, behaviour,
                         CorrectnessProof(keypair.ek, keypair.dk,
                                          EkProofDomain(my_keygen_id, party)))
                 zkp_proof ==
                     corrupt_zkp_proof(my_keygen_id, behaviour, zksetup.zkp_proof)
                 bytes ==
                     serialize([y_i_commit |-> y_i_commit, ek |-> keypair.ek,
                                ek_proof |-> ek_proof, zkp |-> zksetup.zkp,
                                zkp_proof |-> zkp_proof], rnd.bincode_ok)
             IN  IF bytes = TofnFatal THEN TofnFatal
                 ELSE StartBuilder(
                          [name |-> "R2", threshold |-> threshold,
                           party_share_counts |-> party_share_counts,
                           dk |-> keypair.dk, u_i_vss |-> u_i_vss,
                           y_i_reveal |-> y_i_reveal, behaviour |-> behaviour],
                          Some(bytes))

\* what a call of start draws
StartDraws == [u : 1..2, reveal : 0..1, bincode_ok : BOOLEAN]

InitSt ==
    /\ stArgs = None
    /\ stOut = None

\* one call of start, on any share id up to one past the last share
StCall(id, threshold, counts, owner, behaviour, rnd) ==
    /\ stArgs' = [my_keygen_id |-> id, threshold |-> threshold,
                  party_share_counts |-> counts, owner |-> owner,
                  behaviour |-> behaviour, rnd |-> rnd]
    /\ stOut' = start(id, threshold, counts, PartyKeyPair(owner), PartyZkSetup(owner),
                      behaviour, rnd)

NextSt ==
    \E id \in 0..NShares, threshold \in 0..(NShares - 1), counts \in PartyShareCounts,
       owner \in 0..1, behaviour \in KeygenBehaviours, rnd \in StartDraws :
        StCall(id, threshold, counts, owner, behaviour, rnd) /\ UNCHANGED NotSt

\* C9: whenever start succeeds it returns NotDone with a round builder whose
\* next round is R2, whose broadcast is present and whose p2p vector is
\* absent; it never returns Done.
C9_StartIsBroadcastOnly ==
    (stOut # None /\ stOut # TofnFatal) =>
        /\ stOut.kind = "NotDone"
        /\ stOut.round.name = "R2"
        /\ stOut.bcast_out # None
        /\ stOut.p2ps_out = None

C9_Witness ==
    /\ stOut # None
    /\ stOut # TofnFatal
    /\ stOut.kind = "NotDone"
    /\ stOut.bcast_out = Some(serialize(deserialize(stOut.bcast_out.some), TRUE))

\* the number of shares of all parties
RECURSIVE TotalShareCount(_)
TotalShareCount(counts) ==
    IF counts = <<>> THEN 0 ELSE Head(counts) + TotalShareCount(Tail(counts))

\* C13: if share_to_party_id(my_keygen_id) fails (the id is of no share) or
\* the serialization of the round-1 Bcast fails, start returns
\* Err(TofnFatal): no round builder, no next-round state, no outgoing
\* message.
C13_StartFatalErrors ==
    (/\ stOut # None
     /\ \/ stArgs.my_keygen_id >= TotalShareCount(stArgs.party_share_counts)
        \/ ~stArgs.rnd.bincode_ok) =>
        /\ stOut = TofnFatal
        /\ DOMAIN stOut \cap {"kind", "round", "bcast_out", "p2ps_out"} = {}

\* start has failed on the serialization alone, for the id of a share
C13_Witness ==
    /\ stOut = TofnFatal
    /\ stArgs.my_keygen_id < TotalShareCount(stArgs.party_share_counts)
    /\ ~stArgs.rnd.bincode_ok

\* start has succeeded: what it broadcasts, and what an honest share would
\* have broadcast on the same arguments and draws
StartBcast == deserialize(stOut.bcast_out.some)

HonestStartBcast ==
    [y_i_commit |->
        HashCommit(Y_I_COMMIT_TAG, stArgs.my_keygen_id,
                   PointToBytes(GeMul(GeneratorG, VssGetSecret(stOut.round.u_i_vss))),
                   stArgs.rnd.reveal),
     ek |-> PartyKeyPair(stArgs.owner).ek,
     ek_proof |->
        CorrectnessProof(PartyKeyPair(stArgs.owner).ek, PartyKeyPair(stArgs.owner).dk,
            IdToBytes(share_to_party_id(stArgs.party_share_counts,
                                        stArgs.my_keygen_id).party_id)),
     zkp |-> PartyZkSetup(stArgs.owner).zkp,
     zkp_proof |-> PartyZkSetup(stArgs.owner).zkp_proof]

\* the fields of the round-1 Bcast in which the two differ
RewrittenFields ==
    {f \in {"y_i_commit", "ek", "ek_proof", "zkp", "zkp_proof"} :
        StartBcast[f] # HonestStartBcast[f]}

\* C14: R1BadCommit rewrites y_i_commit alone, R1BadEncryptionKeyProof
\* ek_proof alone, R1BadZkSetupProof zkp_proof alone; ek and zkp are never
\* rewritten, and under any other Behaviour every field is the honest value.
C14_InjectionIsSelective ==
    (stOut # None /\ stOut # TofnFatal) =>
        RewrittenFields =
            CASE stArgs.behaviour = "R1BadCommit" -> {"y_i_commit"}
              [] stArgs.behaviour = "R1BadEncryptionKeyProof" -> {"ek_proof"}
              [] stArgs.behaviour = "R1BadZkSetupProof" -> {"zkp_proof"}
              [] OTHER -> {}

\* start has succeeded under R1BadCommit
C14_Witness ==
    /\ stOut # None
    /\ stOut # TofnFatal
    /\ stArgs.behaviour = "R1BadCommit"
    /\ RewrittenFields = {"y_i_commit"}

\* C18: for an honest share, the y_i_reveal stored in the R2 state opens the
\* broadcast y_i_commit (tag Y_I_COMMIT_TAG, the share's own id) to g * u_i,
\* u_i the secret of the u_i_vss stored in the same R2 state; and the R2 state
\* carries the threshold and party_share_counts start was given.
C18_CommitOpensInR2State ==
    (stOut # None /\ stOut # TofnFatal /\ stArgs.behaviour = "Honest") =>
        /\ StartBcast.y_i_commit =
               HashCommit(Y_I_COMMIT_TAG, stArgs.my_keygen_id,
                          PointToBytes((GeneratorG * stOut.round.u_i_vss.secret_coeffs[1]) % q),
                          stOut.round.y_i_reveal)
        /\ stOut.round.threshold = stArgs.threshold
        /\ stOut.round.party_share_counts = stArgs.party_share_counts

\* an honest start has succeeded for a share other than the first, with a
\* threshold other than 0
C18_Witness ==
    /\ stOut # None
    /\ stOut # TofnFatal
    /\ stArgs.behaviour = "Honest"
    /\ stArgs.my_keygen_id > 0
    /\ stArgs.threshold > 0
    /\ stOut.round.y_i_reveal = stArgs.rnd.reveal

(***************************************************************************)
(* The protocol runtime of section 4.1 (not among the sources): message    *)
(* buffers, msg_in, execute_next_round                                     *)
(***************************************************************************)
\* msg_in that lets a second delivery overwrite the first
msg_in_overwrite(bcasts, p2ps, faulters, from, kind, payload) ==
    [bcasts |-> IF kind = "bcast" THEN [bcasts EXCEPT ![from] = Some(payload)]
                ELSE bcasts,
     p2ps |-> IF kind = "p2p" THEN [p2ps EXCEPT ![from] = Some(payload)] ELSE p2ps,
     faulters |-> faulters]

\* Protocol::msg_in for a message of the current round: buffer it in the
\* sender's slot of its kind; a filled slot is kept and the sender is marked
\* as a faulter
msg_in(bcasts, p2ps, faulters, from, kind, payload) ==
    LET slots == IF kind = "bcast" THEN bcasts ELSE p2ps
    IN  IF slots[from] # None
        THEN [bcasts |-> bcasts, p2ps |-> p2ps, faulters |-> faulters \cup {from}]
        ELSE [bcasts |-> IF kind = "bcast" THEN [bcasts EXCEPT ![from] = Some(payload)]
                         ELSE bcasts,
              p2ps |-> IF kind = "p2p" THEN [p2ps EXCEPT ![from] = Some(payload)]
                       ELSE p2ps,
              faulters |-> faulters]

EmptySlots == [j \in KeygenShareIds |-> None]

InitMi ==
    /\ miBcasts = EmptySlots
    /\ miP2ps = EmptySlots
    /\ miFaulters = {}
    /\ miLast = NoCall

\* one delivery to the Protocol value, first or repeated
MiMsgIn(from, kind, payload) ==
    LET after == msg_in(miBcasts, miP2ps, miFaulters, from, kind, payload)
    IN  /\ miBcasts' = after.bcasts
        /\ miP2ps' = after.p2ps
        /\ miFaulters' = after.faulters
        /\ miLast' = [from |-> from, kind |-> kind, payload |-> payload,
                      bcasts |-> miBcasts, p2ps |-> miP2ps]

NextMi ==
    \E from \in KeygenShareIds, kind \in {"bcast", "p2p"}, payload \in 1..MaxPayload :
        MiMsgIn(from, kind, payload) /\ UNCHANGED NotMi

\* the last delivery found its slot filled
LastWasDuplicate ==
    /\ miLast # NoCall
    /\ IF miLast.kind = "bcast" THEN miLast.bcasts[miLast.from] # None
       ELSE miLast.p2ps[miLast.from] # None

\* C10: a second message from the same sender for the same round and kind
\* marks the sender as a faulter and leaves every buffered slot as it was:
\* the first delivery is kept.
C10_DuplicateMarksFaulter ==
    LastWasDuplicate =>
        /\ miLast.from \in miFaulters
        /\ miBcasts = miLast.bcasts
        /\ miP2ps = miLast.p2ps

\* a duplicate with another payload than the one buffered was delivered
C10_Witness ==
    /\ LastWasDuplicate
    /\ miLast.kind = "bcast"
    /\ miBcasts[miLast.from] # Some(miLast.payload)
    /\ miLast.from \in miFaulters

(***************************************************************************)
(* src/gg20/crypto_tools/paillier/zk/utils.rs                              *)
(***************************************************************************)
\* BigNumber::gcd: Euclid's algorithm on non-negative numbers
RECURSIVE BigNumberGcd(_, _)
BigNumberGcd(a, b) == IF b = 0 THEN a ELSE BigNumberGcd(b, a % b)

\* member_of_mul_group with x > n for x >= n
member_of_mul_group_upto(x, n) ==
    IF x < 1 \/ x > n THEN FALSE
    ELSE IF BigNumberGcd(x, n) # 1 THEN FALSE
    ELSE TRUE

\* member_of_mul_group: is x a member of Z*_n
member_of_mul_group(x, n) ==
    IF x < 1 \/ x >= n THEN FALSE
    ELSE IF BigNumberGcd(x, n) # 1 THEN FALSE
    ELSE TRUE

InitMg ==
    /\ mgArgs = None
    /\ mgOut = None

\* one call, on any x from below 0 to above the modulus
MgCall(x, n) ==
    /\ mgArgs' = [x |-> x, n |-> n]
    /\ mgOut' = member_of_mul_group(x, n)

NextMg ==
    \E x \in (-1)..(MaxModulus + 1), n \in 0..MaxModulus : MgCall(x, n) /\ UNCHANGED NotMg

\* x and n have a common divisor other than 1
ShareAFactor(x, n) == \E d \in 2..n : x % d = 0 /\ n % d = 0

\* C15: member_of_mul_group(x, n) is true if and only if 1 <= x < n and
\* gcd(x, n) = 1; it is false for x = 0, for x = n, for x > n and for any x
\* that shares a factor with n.
C15_MemberOfMulGroup ==
    mgArgs # None =>
        /\ mgOut = (1 <= mgArgs.x /\ mgArgs.x < mgArgs.n
                       /\ ~ShareAFactor(mgArgs.x, mgArgs.n))
        /\ (mgArgs.x = 0 \/ mgArgs.x >= mgArgs.n) => mgOut = FALSE

\* a call on a non-trivial member of the group has returned true
C15_Witness ==
    /\ mgArgs # None
    /\ mgOut = TRUE
    /\ mgArgs.x > 1
    /\ mgArgs.n > mgArgs.x + 1

(***************************************************************************)
(* A keygen session: start (round 1) from the source, rounds 2 and 3 as    *)
(* section 4.2 describes them                                              *)
(***************************************************************************)
Misbehaving == {i \in KeygenShareIds : kgIn.behaviour[i] # "Honest"}

\* at least one share is honest and the others share one round-1 behaviour
KeygenBehavioursOk(beh) ==
    /\ \E i \in KeygenShareIds : beh[i] = "Honest"
    /\ \A i \in KeygenShareIds : beh[i] \in R1Behaviours \cup {"Honest"}
    /\ \A i, j \in KeygenShareIds :
           beh[i] = "Honest" \/ beh[j] = "Honest" \/ beh[i] = beh[j]

InitKg ==
    /\ kgIn \in {c \in [threshold : {NShares - 1}, party_share_counts : PartyShareCounts,
                         behaviour : [KeygenShareIds -> KeygenBehaviours]] :
                    KeygenBehavioursOk(c.behaviour)}
    /\ kgStatus = [i \in KeygenShareIds |-> "New"]
    /\ kgState = [i \in KeygenShareIds |-> None]
    /\ kgBcastOut = [i \in KeygenShareIds |-> [r \in {"R1", "R2"} |-> None]]
    /\ kgP2psOut = [i \in KeygenShareIds |-> None]
    /\ kgBcastsIn = [i \in KeygenShareIds |-> EmptySlots]
    /\ kgP2psIn = [i \in KeygenShareIds |-> EmptySlots]
    /\ kgResult = [i \in KeygenShareIds |-> None]

PartyOf(i) == share_to_party_id(kgIn.party_share_counts, i).party_id

\* new_keygen: share i starts round 1 (bincode succeeds on a Bcast)
KgStart(i) ==
    /\ kgStatus[i] = "New"
    /\ LET out == start(i, kgIn.threshold, kgIn.party_share_counts,
                        PartyKeyPair(PartyOf(i)), PartyZkSetup(PartyOf(i)),
                        kgIn.behaviour[i],
                        [u |-> 1 + (i % 2), reveal |-> i % 2, bincode_ok |-> TRUE])
       IN  /\ kgStatus' = [kgStatus EXCEPT ![i] = out.round.name]
           /\ kgState' = [kgState EXCEPT ![i] = out.round]
           /\ kgBcastOut' = [kgBcastOut EXCEPT ![i]["R1"] = out.bcast_out]
    /\ UNCHANGED <<kgIn, kgP2psOut, kgBcastsIn, kgP2psIn, kgResult>>

\* the round whose messages a share in this status waits for
RoundWaitedFor(st) == IF st = "R2" THEN "R1" ELSE "R2"

\* the transport hands share i the broadcast of j for the round i waits in,
\* once
KgBcastIn(i, j) ==
    /\ kgStatus[i] \in {"R2", "R3"}
    /\ kgBcastOut[j][RoundWaitedFor(kgStatus[i])] # None
    /\ kgBcastsIn[i][j] = None
    /\ kgBcastsIn' = [kgBcastsIn EXCEPT ![i] =
                        msg_in(kgBcastsIn[i], kgP2psIn[i], {}, j, "bcast",
                               kgBcastOut[j][RoundWaitedFor(kgStatus[i])].some).bcasts]
    /\ UNCHANGED <<kgIn, kgStatus, kgState, kgBcastOut, kgP2psOut, kgP2psIn, kgResult>>

\* the same for the round-2 p2p message of j to i
KgP2pIn(i, j) ==
    /\ j # i
    /\ kgStatus[i] = "R3"
    /\ kgP2psOut[j] # None
    /\ kgP2psIn[i][j] = None
    /\ kgP2psIn' = [kgP2psIn EXCEPT ![i] =
                      msg_in(kgBcastsIn[i], kgP2psIn[i], {}, j, "p2p",
                             kgP2psOut[j].some[i]).p2ps]
    /\ UNCHANGED <<kgIn, kgStatus, kgState, kgBcastOut, kgP2psOut, kgBcastsIn, kgResult>>

\* Protocol::expecting_more_msgs_this_round
expecting_more_msgs_this_round(i) ==
    \/ \E j \in KeygenShareIds : kgBcastsIn[i][j] = None
    \/ kgStatus[i] = "R3" /\ \E j \in KeygenShareIds \ {i} : kgP2psIn[i][j] = None

\* round 2: the peers whose ek_proof or zkp_proof does not verify
R2Faulters(i) ==
    {j \in KeygenShareIds :
        LET b == deserialize(kgBcastsIn[i][j].some)
        IN  \/ ~VerifyCorrectness(b.ek, b.ek_proof, IdToBytes(PartyOf(j)))
            \/ ~ZkSetupVerify(b.zkp, b.zkp_proof)}

\* round 3: the peers whose y_i_reveal does not open their y_i_commit to the
\* constant term of their VSS commitment
R3Faulters(i) ==
    {j \in KeygenShareIds :
        HashCommit(Y_I_COMMIT_TAG, j,
                   PointToBytes(kgBcastsIn[i][j].some.u_i_vss_commit[1]),
                   kgBcastsIn[i][j].some.y_i_reveal)
            # kgState[i].r1bcasts[j].y_i_commit}

\* execute_next_round in round 2: Done(Err(faulters)), or round 3 with the
\* reveal, the VSS commitment and the encrypted shares sent
KgExecuteR2(i) ==
    /\ kgStatus[i] = "R2"
    /\ ~expecting_more_msgs_this_round(i)
    /\ IF R2Faulters(i) # {}
       THEN /\ kgStatus' = [kgStatus EXCEPT ![i] = "Done"]
            /\ kgResult' = [kgResult EXCEPT ![i] = [err |-> R2Faulters(i)]]
            /\ UNCHANGED <<kgState, kgBcastOut, kgP2psOut>>
       ELSE /\ kgStatus' = [kgStatus EXCEPT ![i] = "R3"]
            /\ kgState' = [kgState EXCEPT ![i] =
                   [name |-> "R3", u_i_vss |-> kgState[i].u_i_vss,
                    r1bcasts |-> [j \in KeygenShareIds |->
                                     deserialize(kgBcastsIn[i][j].some)]]]
            /\ kgBcastOut' = [kgBcastOut EXCEPT ![i]["R2"] =
                   Some([y_i_reveal |-> kgState[i].y_i_reveal,
                         u_i_vss_commit |->
                             [k \in DOMAIN kgState[i].u_i_vss.secret_coeffs |->
                                 GeMul(GeneratorG, kgState[i].u_i_vss.secret_coeffs[k])]])]
            /\ kgP2psOut' = [kgP2psOut EXCEPT ![i] =
                   Some([j \in KeygenShareIds |->
                            IF j = i THEN None
                            ELSE [u_i_share_ciphertext |-> <<i, j>>]])]
            /\ UNCHANGED kgResult
    /\ kgBcastsIn' = [kgBcastsIn EXCEPT ![i] = EmptySlots]
    /\ UNCHANGED <<kgIn, kgP2psIn>>

\* execute_next_round in round 3: Done(Err(faulters)), or round 4
KgExecuteR3(i) ==
    /\ kgStatus[i] = "R3"
    /\ ~expecting_more_msgs_this_round(i)
    /\ IF R3Faulters(i) # {}
       THEN /\ kgStatus' = [kgStatus EXCEPT ![i] = "Done"]
            /\ kgResult' = [kgResult EXCEPT ![i] = [err |-> R3Faulters(i)]]
       ELSE /\ kgStatus' = [kgStatus EXCEPT ![i] = "R4"]
            /\ UNCHANGED kgResult
    /\ kgBcastsIn' = [kgBcastsIn EXCEPT ![i] = EmptySlots]
    /\ kgP2psIn' = [kgP2psIn EXCEPT ![i] = EmptySlots]
    /\ UNCHANGED <<kgIn, kgState, kgBcastOut, kgP2psOut>>

NextKg ==
    \E i \in KeygenShareIds :
        \/ KgStart(i) /\ UNCHANGED NotKg
        \/ \E j \in KeygenShareIds : KgBcastIn(i, j) /\ UNCHANGED NotKg
        \/ \E j \in KeygenShareIds : KgP2pIn(i, j) /\ UNCHANGED NotKg
        \/ KgExecuteR2(i) /\ UNCHANGED NotKg
        \/ KgExecuteR3(i) /\ UNCHANGED NotKg

\* C4: when shares run round 1 with an injected Behaviour (R1BadCommit,
\* R1BadEncryptionKeyProof or R1BadZkSetupProof) and the others are honest,
\* every honest share ends with Err(faulters), faulters being exactly the
\* misbehaving shares, whatever the order of delivery: it never passes the
\* detecting round, and until it has ended some step of the session can be
\* taken.
C4_FaultersAreTheMisbehaving ==
    Misbehaving # {} =>
        \A i \in KeygenShareIds \ Misbehaving :
            /\ kgStatus[i] # "R4"
            /\ kgResult[i] # None => kgResult[i] = [err |-> Misbehaving]
            /\ kgStatus[i] # "Done" => ENABLED NextKg

\* every honest share has ended with the faulters; two of the shares took
\* their round-1 broadcasts in opposite orders
C4_Witness ==
    /\ Misbehaving # {}
    /\ \A i \in KeygenShareIds \ Misbehaving : kgResult[i] = [err |-> Misbehaving]
\* the party holding a share: the first whose shares, counted with those of
\* the parties before it, reach past the share's id
PartyHolding(counts, share) ==
    (CHOOSE k \in 1..Len(counts) :
        /\ share < TotalShareCount(SubSeq(counts, 1, k))
        /\ share >= TotalShareCount(SubSeq(counts, 1, k - 1))) - 1

\* the domain bytes in the ek_proof a share broadcast in round 1
BroadcastEkProofDomain(i) == deserialize(kgBcastOut[i]["R1"].some).ek_proof.domain

\* C16: the ek_proof of round 1 is bound to the party id, not the share id:
\* its domain is the bytes of the id of the party holding the share, so two
\* shares of one party carry the same binding value and shares of different
\* parties different ones.
C16_EkProofBoundToParty ==
    \A i, j \in KeygenShareIds :
        (kgBcastOut[i]["R1"] # None /\ kgBcastOut[j]["R1"] # None) =>
            /\ BroadcastEkProofDomain(i) =
                   IdToBytes(PartyHolding(kgIn.party_share_counts, i))
            /\ (BroadcastEkProofDomain(i) = BroadcastEkProofDomain(j))
                   <=> (PartyHolding(kgIn.party_share_counts, i)
                            = PartyHolding(kgIn.party_share_counts, j))

\* two shares of one party have both broadcast
C16_Witness ==
    \E i, j \in KeygenShareIds :
        /\ i # j
        /\ kgBcastOut[i]["R1"] # None
        /\ kgBcastOut[j]["R1"] # None
        /\ PartyHolding(kgIn.party_share_counts, i)
               = PartyHolding(kgIn.party_share_counts, j)
        /\ BroadcastEkProofDomain(i) = BroadcastEkProofDomain(j)

(***************************************************************************)
(* Specifications: the Ed25519 primitive, the sign session, the call of    *)
(* start, the keygen session and the message buffers are independent; each *)
(* leaves the others' variables as they are.                               *)
(***************************************************************************)
IdleEd == InitEd

IdleSg ==
    /\ sgIn = None /\ status = None /\ r1state = None /\ r3state = None
    /\ r5state = None /\ r6state = None /\ r7state = None
    /\ out_r3bcast = None /\ out_r6bcast = None /\ out_r7bcast = None
    /\ in_r3bcasts = None /\ in_r6bcasts = None /\ r7call = None /\ sgSig = None

IdleSt == InitSt

IdleKg ==
    /\ kgIn = None /\ kgStatus = None /\ kgState = None /\ kgBcastOut = None
    /\ kgP2psOut = None /\ kgBcastsIn = None /\ kgP2psIn = None /\ kgResult = None

IdleMi == InitMi

IdleMg == InitMg

InitSpecEd == InitEd /\ IdleSg /\ IdleSt /\ IdleKg /\ IdleMi /\ IdleMg

InitSpecSg == InitSg /\ IdleEd /\ IdleSt /\ IdleKg /\ IdleMi /\ IdleMg

InitSpecSt == InitSt /\ IdleEd /\ IdleSg /\ IdleKg /\ IdleMi /\ IdleMg

InitSpecKg == InitKg /\ IdleEd /\ IdleSg /\ IdleSt /\ IdleMi /\ IdleMg

InitSpecMi == InitMi /\ IdleEd /\ IdleSg /\ IdleSt /\ IdleKg /\ IdleMg

InitSpecMg == InitMg /\ IdleEd /\ IdleSg /\ IdleSt /\ IdleKg /\ IdleMi

SpecEd == InitSpecEd /\ [][NextEd]_vars

SpecSg == InitSpecSg /\ [][NextSg]_vars

SpecSt == InitSpecSt /\ [][NextSt]_vars

SpecKg == InitSpecKg /\ [][NextKg]_vars

SpecMi == InitSpecMi /\ [][NextMi]_vars

SpecMg == InitSpecMg /\ [][NextMg]_vars

====
